---- MODULE Spec2Model ----
(***************************************************************************)
(* StudentOS scoring engine (src/engine.py) and the log-hours API of the   *)
(* server (src/app.py).                                                    *)
(*                                                                         *)
(* Numbers are fixed point, so that every comparison and every rounding    *)
(* of the engine is computed on exact values:                              *)
(*   weight_percent   tenths of a percent      (62.4 %   is 624)           *)
(*   estimated_hours  hundredths of an hour    (3.01 h   is 301)           *)
(*   current_grade    hundredths of a point    (85.5     is 8550)          *)
(*   every value the engine passes through round(x, 2): hundredths         *)
(*   dates            day ordinals; isoformat() is one-to-one on dates and *)
(*                    is kept as the ordinal                               *)
(* A quotient that the engine compares before rounding it is kept as the   *)
(* pair numerator / denominator.                                           *)
(***************************************************************************)
EXTENDS Integers, Sequences, FiniteSets, TLC

VARIABLES assignments, today, call, result, rows, requests

vars == <<assignments, today, call, result, rows, requests>>

(* hours_per_day of an overdue assignment (Python None) *)
None == -1

----------------------------------------------------------------------------
(* HELPERS *)

Max(x, y) == IF x >= y THEN x ELSE y

Min(x, y) == IF x <= y THEN x ELSE y

Abs(x) == IF x < 0 THEN -x ELSE x

(* round(num / den, 0) to the nearest integer, a tie going to the even     *)
(* neighbour, which is the rule of Python's round(); den > 0.  (A binary    *)
(* float that stands for a decimal tie lies a little to one side of it, so *)
(* the engine may round such a value the other way; no statement below     *)
(* rests on the direction of a tie.)                                       *)
Round(num, den) ==
    LET q == num \div den
        r == num % den
    IN  IF 2 * r < den THEN q
        ELSE IF 2 * r > den THEN q + 1
        ELSE IF q % 2 = 0 THEN q ELSE q + 1

days_until(due, day) == due - day

clamp(value, lo, hi) == Max(lo, Min(hi, value))

----------------------------------------------------------------------------
(* 1) RISK *)

(* the "soon" bucket of calc_risk *)
soon(dleft) ==
    IF dleft <= 1 THEN 10
    ELSE IF dleft <= 3 THEN 8
    ELSE IF dleft <= 7 THEN 6
    ELSE IF dleft <= 14 THEN 4
    ELSE 2

(* risk before rounding, in thousandths:                                   *)
(* 0.4 * soon + 0.4 * clamp(weight_percent, 0, 100) / 10 + 0.2 * doubt     *)
risk_raw(a, day) ==
    LET doubt == 6 - clamp(a.confidence, 1, 5)
    IN  400 * soon(days_until(a.due_date, day))
          + 4 * clamp(a.weight_percent, 0, 1000)
          + 200 * doubt

(* the label is taken from the risk before it is rounded *)
risk_label_of(risk) ==
    IF risk < 3500 THEN "Low"
    ELSE IF risk < 5500 THEN "Medium"
    ELSE "High"

calc_risk(a, day) ==
    [name       |-> a.name,
     days_left  |-> days_until(a.due_date, day),
     risk_score |-> Round(risk_raw(a, day), 10),
     risk_label |-> risk_label_of(risk_raw(a, day))]

(* rank_assignments: scored.sort(key = risk_score, reverse = True).  The    *)
(* sort is written out here as in sort_reverse below.                      *)
rank_assignments(as, day) ==
    LET scored == [i \in 1..Len(as) |-> calc_risk(as[i], day)]
        n == Len(as)
        before(i) == {j \in 1..n : scored[j].risk_score > scored[i].risk_score
                                     \/ (scored[j].risk_score = scored[i].risk_score
                                           /\ j < i)}
        at(p) == CHOOSE i \in 1..n : Cardinality(before(i)) = p - 1
    IN  [p \in 1..n |-> scored[at(p)]]

----------------------------------------------------------------------------
(* 2) URGENCY *)

(* urgency_zone(hours / ndays), the argument being the unrounded quotient  *)
urgency_zone(hours, ndays) ==
    IF hours <= 100 * ndays THEN "Safe"
    ELSE IF hours <= 250 * ndays THEN "Steady"
    ELSE IF hours <= 400 * ndays THEN "Crunch Zone"
    ELSE "Panic Zone"

calc_urgency(a, day, start_delay_days) ==
    LET dleft_after_delay == days_until(a.due_date, day) - start_delay_days
        effective_days    == Max(1, dleft_after_delay)
    IN  IF dleft_after_delay < 0
        THEN [name                  |-> a.name,
              start_delay_days      |-> start_delay_days,
              days_left_after_delay |-> dleft_after_delay,
              hours_per_day         |-> None,
              zone                  |-> "Overdue"]
        ELSE [name                  |-> a.name,
              start_delay_days      |-> start_delay_days,
              days_left_after_delay |-> dleft_after_delay,
              hours_per_day         |-> Round(a.estimated_hours, effective_days),
              zone                  |-> urgency_zone(a.estimated_hours, effective_days)]

----------------------------------------------------------------------------
(* 5) START-BY DATE *)

(* the loop of start_by_date: the first delay in delay..total_days_left    *)
(* whose hours_per_day exceeds the threshold, or None when the loop ends   *)
RECURSIVE first_crunch_delay(_, _, _, _)
first_crunch_delay(hours, total_days_left, crunch_threshold, delay) ==
    IF delay > total_days_left THEN None
    ELSE IF hours > crunch_threshold * Max(1, total_days_left - delay)
         THEN delay
         ELSE first_crunch_delay(hours, total_days_left, crunch_threshold, delay + 1)

(* start_by_date returning the first delay over the threshold itself, the   *)
(* step back by one day left out                                           *)
start_by_date_no_step_back(a, day, crunch_threshold) ==
    LET total_days_left == days_until(a.due_date, day)
        delay == first_crunch_delay(a.estimated_hours, total_days_left,
                                    crunch_threshold, 0)
    IN  IF total_days_left <= 0
        THEN [name          |-> a.name,
              start_by_days |-> 0,
              start_by_date |-> day,
              message       |-> [kind |-> "immediately", zone |-> ""]]
        ELSE IF delay # None
        THEN [name          |-> a.name,
              start_by_days |-> delay,
              start_by_date |-> day + delay,
              message       |-> [kind |-> "avoid",
                                 zone |-> urgency_zone(a.estimated_hours,
                                            Max(1, total_days_left - delay))]]
        ELSE [name          |-> a.name,
              start_by_days |-> total_days_left,
              start_by_date |-> a.due_date,
              message       |-> [kind |-> "pace", zone |-> ""]]

start_by_date(a, day, crunch_threshold) ==
    LET total_days_left == days_until(a.due_date, day)
        delay == first_crunch_delay(a.estimated_hours, total_days_left,
                                    crunch_threshold, 0)
        safe_delay == Max(0, delay - 1)
    IN  IF total_days_left <= 0
        THEN [name          |-> a.name,
              start_by_days |-> 0,
              start_by_date |-> day,
              message       |-> [kind |-> "immediately", zone |-> ""]]
        ELSE IF delay # None
        THEN [name          |-> a.name,
              start_by_days |-> safe_delay,
              start_by_date |-> day + safe_delay,
              message       |-> [kind |-> "avoid",
                                 zone |-> urgency_zone(a.estimated_hours,
                                            Max(1, total_days_left - delay))]]
        ELSE [name          |-> a.name,
              start_by_days |-> total_days_left,
              start_by_date |-> a.due_date,
              message       |-> [kind |-> "pace", zone |-> ""]]

----------------------------------------------------------------------------
(* list.sort(key = ..., reverse = True): the elements of s by descending   *)
(* key, elements of equal key staying in the order they had in s.  keys[i] *)
(* is the key of s[i].                                                     *)

(* sorting ascending and reversing the result: equal keys come out in the  *)
(* reverse of their order in s                                             *)
sort_reverse_ties_reversed(s, keys) ==
    LET n == Len(s)
        before(i) == {j \in 1..n : keys[j] > keys[i] \/ (keys[j] = keys[i] /\ j > i)}
        at(p) == CHOOSE i \in 1..n : Cardinality(before(i)) = p - 1
    IN  [p \in 1..n |-> s[at(p)]]

sort_reverse(s, keys) ==
    LET n == Len(s)
        before(i) == {j \in 1..n : keys[j] > keys[i] \/ (keys[j] = keys[i] /\ j < i)}
        at(p) == CHOOSE i \in 1..n : Cardinality(before(i)) = p - 1
    IN  [p \in 1..n |-> s[at(p)]]

(* list.sort(key = ...): ascending, equal keys in their order in s *)
sort_ascending(s, keys) ==
    sort_reverse(s, [i \in 1..Len(keys) |-> -keys[i]])

----------------------------------------------------------------------------
(* 3) COMBINED "DANGER" SCORE *)

(* urgency_scaled without the overdue case: None counted as 0 hours a day *)
urgency_scaled_none_as_zero(hours_per_day) ==
    IF hours_per_day = None THEN 0 ELSE Min(500, hours_per_day) * 2

(* hours_per_day on the 0..10 scale of the risk score *)
urgency_scaled(hours_per_day) ==
    IF hours_per_day = None THEN 1000 ELSE Min(500, hours_per_day) * 2

(* round(0.7 * risk + 0.3 * urgency_scaled, 2) *)
danger_blend(risk, urgency) == Round(7 * risk + 3 * urgency, 10)

danger_score(a, day) ==
    danger_blend(calc_risk(a, day).risk_score,
                 urgency_scaled(calc_urgency(a, day, 0).hours_per_day))

(* the entry rank_assignments_by_danger appends for one assignment *)
danger_entry(a, day) ==
    [name          |-> a.name,
     risk_score    |-> calc_risk(a, day).risk_score,
     risk_label    |-> calc_risk(a, day).risk_label,
     hours_per_day |-> calc_urgency(a, day, 0).hours_per_day,
     zone          |-> calc_urgency(a, day, 0).zone,
     danger_score  |-> danger_score(a, day)]

rank_assignments_by_danger(as, day) ==
    LET results == [i \in 1..Len(as) |-> danger_entry(as[i], day)]
    IN  sort_reverse(results, [i \in 1..Len(as) |-> results[i].danger_score])

----------------------------------------------------------------------------
(* 4) STRESS FORECAST *)

(* the loop of stress_forecast without its test 0 <= days_left *)
RECURSIVE high_risk_loop_counts_overdue(_, _, _, _, _)
high_risk_loop_counts_overdue(as, day, window_days, i, high_risk) ==
    IF i > Len(as) THEN high_risk
    ELSE LET r == calc_risk(as[i], day)
         IN  IF r.days_left <= window_days /\ r.risk_label = "High"
             THEN high_risk_loop_counts_overdue(as, day, window_days, i + 1,
                                 Append(high_risk, as[i].name))
             ELSE high_risk_loop_counts_overdue(as, day, window_days, i + 1,
                                 high_risk)

(* the loop of stress_forecast from assignment i on; high_risk is the list *)
(* built so far                                                            *)
RECURSIVE high_risk_loop(_, _, _, _, _)
high_risk_loop(as, day, window_days, i, high_risk) ==
    IF i > Len(as) THEN high_risk
    ELSE LET r == calc_risk(as[i], day)
         IN  IF 0 <= r.days_left /\ r.days_left <= window_days
                  /\ r.risk_label = "High"
             THEN high_risk_loop(as, day, window_days, i + 1,
                                 Append(high_risk, as[i].name))
             ELSE high_risk_loop(as, day, window_days, i + 1, high_risk)

stress_forecast(as, day, window_days) ==
    LET high_risk == high_risk_loop(as, day, window_days, 1, <<>>)
        count == Len(high_risk)
    IN  [window_days     |-> window_days,
         high_risk_count |-> count,
         high_risk_names |-> high_risk,
         message         |-> [count |-> count,
                              word  |-> IF count = 1 THEN "assignment"
                                        ELSE "assignments",
                              window_days |-> window_days]]

----------------------------------------------------------------------------
(* 6) WORKLOAD PROJECTION *)

(* the inner loop of workload_projection skipping an assignment on its due *)
(* date too (dleft <= 0 for dleft < 0)                                     *)
RECURSIVE workload_day_loop_skips_due_day(_, _, _, _)
workload_day_loop_skips_due_day(as, day, k, acc) ==
    IF k > Len(as) THEN acc
    ELSE LET a == as[k]
             dleft == days_until(a.due_date, day)
             effective_days == Max(1, dleft)
         IN  IF dleft <= 0
             THEN workload_day_loop_skips_due_day(as, day, k + 1, acc)
             ELSE workload_day_loop_skips_due_day(as, day, k + 1,
                    [num |-> acc.num * effective_days + a.estimated_hours * acc.den,
                     den |-> acc.den * effective_days,
                     breakdown |-> Append(acc.breakdown,
                        [name        |-> a.name,
                         daily_hours |-> Round(a.estimated_hours, effective_days),
                         due_date    |-> a.due_date])])

(* the inner loop of workload_projection for one day, from assignment k    *)
(* on; acc.num / acc.den is the total so far and acc.breakdown the list    *)
RECURSIVE workload_day_loop(_, _, _, _)
workload_day_loop(as, day, k, acc) ==
    IF k > Len(as) THEN acc
    ELSE LET a == as[k]
             dleft == days_until(a.due_date, day)
             effective_days == Max(1, dleft)
         IN  IF dleft < 0
             THEN workload_day_loop(as, day, k + 1, acc)
             ELSE workload_day_loop(as, day, k + 1,
                    [num |-> acc.num * effective_days + a.estimated_hours * acc.den,
                     den |-> acc.den * effective_days,
                     breakdown |-> Append(acc.breakdown,
                        [name        |-> a.name,
                         daily_hours |-> Round(a.estimated_hours, effective_days),
                         due_date    |-> a.due_date])])

(* workload_projection looping over range(1, days): today is left out *)
workload_projection_from_tomorrow(as, day0, days) ==
    [i \in 1..(days - 1) |->
        LET day == day0 + i
            acc == workload_day_loop(as, day, 1,
                                     [num |-> 0, den |-> 1, breakdown |-> <<>>])
        IN  [date        |-> day,
             total_hours |-> Round(acc.num, acc.den),
             breakdown   |-> acc.breakdown]]

workload_projection(as, day0, days) ==
    [i \in 1..days |->
        LET day == day0 + (i - 1)
            acc == workload_day_loop(as, day, 1,
                                     [num |-> 0, den |-> 1, breakdown |-> <<>>])
        IN  [date        |-> day,
             total_hours |-> Round(acc.num, acc.den),
             breakdown   |-> acc.breakdown]]

----------------------------------------------------------------------------
(* 7) GPA IMPACT *)

expected_score_from_confidence(confidence) ==
    CASE confidence = 1 -> 6500
      [] confidence = 2 -> 7500
      [] confidence = 3 -> 8300
      [] confidence = 4 -> 9000
      [] confidence = 5 -> 9600
      [] OTHER -> 8300

(* projected_grade_after_assignment with the two weights exchanged *)
projected_grade_weights_exchanged(current_grade, weight_percent, assignment_score) ==
    LET w  == clamp(weight_percent, 0, 1000)
        cg == clamp(current_grade, 0, 10000)
        sc == clamp(assignment_score, 0, 10000)
    IN  Round(cg * w + sc * (1000 - w), 1000)

projected_grade_after_assignment(current_grade, weight_percent, assignment_score) ==
    LET w  == clamp(weight_percent, 0, 1000)
        cg == clamp(current_grade, 0, 10000)
        sc == clamp(assignment_score, 0, 10000)
    IN  Round(cg * (1000 - w) + sc * w, 1000)

gpa_impact_estimate(a, current_grade) ==
    LET predicted_score == expected_score_from_confidence(a.confidence)
        new_grade == projected_grade_after_assignment(current_grade,
                         a.weight_percent, predicted_score)
        delta == Round(new_grade - current_grade, 1)
        drop_risk == a.weight_percent >= 200 /\ a.confidence <= 2
        mag == Abs(delta)
    IN  [name            |-> a.name,
         current_grade   |-> Round(current_grade, 1),
         weight_percent  |-> a.weight_percent,
         predicted_score |-> Round(predicted_score, 1),
         projected_grade |-> new_grade,
         delta_points    |-> delta,
         severity        |-> IF mag < 50 THEN "Tiny"
                             ELSE IF mag < 150 THEN "Noticeable"
                             ELSE "Big",
         drop_risk       |-> drop_risk,
         message         |-> [delta |-> delta, warning |-> drop_risk]]

gpa_impact_estimates(as, current_grade) ==
    LET impacts == [i \in 1..Len(as) |-> gpa_impact_estimate(as[i], current_grade)]
    IN  sort_ascending(impacts, [i \in 1..Len(as) |-> impacts[i].delta_points])

----------------------------------------------------------------------------
(* 8) DASHBOARD SUMMARY *)

(* start_by_date's default crunch_threshold, 2.5 hours a day *)
DefaultCrunchThreshold == 250

(* dashboard_summary's window of the stress forecast *)
DashboardWindowDays == 5

(* ranked[:4] *)
DashboardTopOneMore == 3 + 1

(* dashboard_summary keeps ranked[:3] *)
DashboardTop == 3

(* by_name = {a.name: a for a in assignments}: a later assignment of the   *)
(* same name replaces an earlier one                                       *)
by_name(as, name) ==
    LET last == CHOOSE i \in 1..Len(as) :
                   /\ as[i].name = name
                   /\ \A j \in 1..Len(as) : as[j].name = name => j <= i
    IN  as[last]

dashboard_summary(as, day) ==
    LET ranked == rank_assignments_by_danger(as, day)
        forecast == stress_forecast(as, day, DashboardWindowDays)
        kept == SubSeq(ranked, 1, Min(DashboardTop, Len(ranked)))
        sb(item) == start_by_date(by_name(as, item.name), day, DefaultCrunchThreshold)
    IN  [stress_forecast |-> forecast,
         top       |-> [i \in 1..Len(kept) |->
                          kept[i] @@ [start_by |-> sb(kept[i])]],
         headlines |-> [i \in 1..Len(kept) |->
                          [name          |-> kept[i].name,
                           danger_score  |-> kept[i].danger_score,
                           risk_label    |-> kept[i].risk_label,
                           risk_score    |-> kept[i].risk_score,
                           zone          |-> kept[i].zone,
                           hours_per_day |-> kept[i].hours_per_day,
                           start_by_date |-> sb(kept[i]).start_by_date]]]

----------------------------------------------------------------------------
(* THE CALLS.  The engine keeps no state of its own: a state of the model  *)
(* is the caller's assignment list and reference date, the last call made  *)
(* (call) and what it returned (result).                                   *)

Assignment(n, w, d, c, h) ==
    [name |-> n, weight_percent |-> w, due_date |-> d, confidence |-> c,
     estimated_hours |-> h]

NoCall == [op |-> "none", i |-> 0, arg |-> 0]

(* bounds of the inputs *)
Today0 == 10
MaxLen == 4
MaxDays == 2
MaxDue == 12
MaxDelay == 4
MaxQuarterHours == 120
MaxFrameLen == 3
MaxDashLen == 3

CrunchThresholds == {100, DefaultCrunchThreshold, 400}

WindowDays == {2, DashboardWindowDays}

(* current grades, the last two outside 0..100 *)
CurrentGrades == {8500, 8550, 0, 10000, 6213, 10500, -500}

CallCalcRisk ==
    /\ \E i \in 1..Len(assignments) :
          /\ call' = [op |-> "calc_risk", i |-> i, arg |-> 0]
          /\ result' = calc_risk(assignments[i], today)
    /\ UNCHANGED <<assignments, today, rows, requests>>

CallCalcUrgency ==
    /\ \E i \in 1..Len(assignments), delay \in 0..MaxDelay :
          /\ call' = [op |-> "calc_urgency", i |-> i, arg |-> delay]
          /\ result' = calc_urgency(assignments[i], today, delay)
    /\ UNCHANGED <<assignments, today, rows, requests>>

CallDangerScore ==
    /\ \E i \in 1..Len(assignments) :
          /\ call' = [op |-> "danger_score", i |-> i, arg |-> 0]
          /\ result' = danger_score(assignments[i], today)
    /\ UNCHANGED <<assignments, today, rows, requests>>

CallStartByDate ==
    /\ \E i \in 1..Len(assignments), crunch_threshold \in CrunchThresholds :
          /\ call' = [op |-> "start_by_date", i |-> i, arg |-> crunch_threshold]
          /\ result' = start_by_date(assignments[i], today, crunch_threshold)
    /\ UNCHANGED <<assignments, today, rows, requests>>

CallGpaImpactEstimate ==
    /\ \E i \in 1..Len(assignments), current_grade \in CurrentGrades :
          /\ call' = [op |-> "gpa_impact_estimate", i |-> i, arg |-> current_grade]
          /\ result' = gpa_impact_estimate(assignments[i], current_grade)
    /\ UNCHANGED <<assignments, today, rows, requests>>

CallRankByDanger ==
    /\ call' = [op |-> "rank_assignments_by_danger", i |-> 0, arg |-> 0]
    /\ result' = rank_assignments_by_danger(assignments, today)
    /\ UNCHANGED <<assignments, today, rows, requests>>

CallStressForecast ==
    /\ \E window_days \in WindowDays :
          /\ call' = [op |-> "stress_forecast", i |-> 0, arg |-> window_days]
          /\ result' = stress_forecast(assignments, today, window_days)
    /\ UNCHANGED <<assignments, today, rows, requests>>

CallWorkloadProjection ==
    /\ \E days \in 0..MaxDays :
          /\ call' = [op |-> "workload_projection", i |-> 0, arg |-> days]
          /\ result' = workload_projection(assignments, today, days)
    /\ UNCHANGED <<assignments, today, rows, requests>>

CallGpaImpactEstimates ==
    /\ \E current_grade \in {8500, 8550} :
          /\ call' = [op |-> "gpa_impact_estimates", i |-> 0, arg |-> current_grade]
          /\ result' = gpa_impact_estimates(assignments, current_grade)
    /\ UNCHANGED <<assignments, today, rows, requests>>

CallDashboardSummary ==
    /\ call' = [op |-> "dashboard_summary", i |-> 0, arg |-> 0]
    /\ result' = dashboard_summary(assignments, today)
    /\ UNCHANGED <<assignments, today, rows, requests>>

----------------------------------------------------------------------------
(* THE SERVER (src/app.py): the assignments table and POST                 *)
(* /assignments/<id>/log-hours.  rows is the table, by id; est_hours and   *)
(* hours_logged are in hundredths of an hour.  Every request is handled on *)
(* a connection of its own (get_db), by a server that handles requests     *)
(* concurrently (app.run, threaded), so the statements of two requests     *)
(* interleave; a statement in autocommit and an UPDATE with its commit are *)
(* each one step of the database.                                          *)

MaxRequests == 2

Users == {"ann", "bob"}

(* the ids a request may name; "a0" is the id of no row *)
Ids == {"a0", "a1", "a2", "a3"}

(* the hours of a request body *)
RequestHours == {-50, 0, 100, 200}

Row(u, n, w, d, c, est, logged, created) ==
    [username |-> u, name |-> n, weight_percent |-> w, due_date |-> d,
     confidence |-> c, est_hours |-> est, hours_logged |-> logged,
     created_at |-> created]

(* rows as create_assignment inserted them (hours_logged 0), a2 with an    *)
(* hour logged since                                                       *)
AssignmentsTable ==
    [id \in {"a1", "a2", "a3"} |->
        CASE id = "a1" -> Row("ann", "essay", 400, Today0 + 3, 2, 250, 0, 1)
          [] id = "a2" -> Row("bob", "lab", 100, Today0 + 5, 4, 150, 100, 2)
          [] id = "a3" -> Row("ann", "quiz", 300, Today0 + 1, 3, 100, 0, 3)]

(* a request not yet received *)
NoRequest ==
    [pc |-> "idle", username |-> "", id |-> "", hours |-> 0,
     new_logged |-> 0, status |-> 0]

NoRequests == [r \in 1..MaxRequests |-> NoRequest]

(* _load_user_assignments: the user's rows, ORDER BY created_at DESC, each *)
(* with estimated_hours = max(0.0, est_hours - hours_logged)               *)
load_user_assignments(table, username) ==
    LET ids == {id \in DOMAIN table : table[id].username = username}
        n == Cardinality(ids)
        at(p) == CHOOSE id \in ids :
                    Cardinality({j \in ids : table[j].created_at
                                               > table[id].created_at}) = p - 1
        remaining(row) == Max(0, row.est_hours - row.hours_logged)
    IN  [p \in 1..n |->
            Assignment(table[at(p)].name, table[at(p)].weight_percent,
                       table[at(p)].due_date, table[at(p)].confidence,
                       remaining(table[at(p)]))]

(* log_hours, lines 344-349: the request is received; hours <= 0 is        *)
(* answered 400 before the database is opened                              *)
LogHoursReceive(r) ==
    /\ requests[r].pc = "idle"
    /\ \E username \in Users, id \in Ids, hours \in RequestHours :
          requests' = [requests EXCEPT ![r] =
              IF hours <= 0
              THEN [pc |-> "done", username |-> username, id |-> id,
                    hours |-> hours, new_logged |-> 0, status |-> 400]
              ELSE [pc |-> "select", username |-> username, id |-> id,
                    hours |-> hours, new_logged |-> 0, status |-> 0]]
    /\ UNCHANGED <<assignments, today, call, result, rows>>

(* log_hours, lines 351-360: SELECT ... WHERE id = ? AND username = ?;     *)
(* no row is answered 404, else new_logged = hours_logged + hours          *)
LogHoursSelect(r) ==
    /\ requests[r].pc = "select"
    /\ LET q == requests[r]
       IN  requests' = [requests EXCEPT ![r] =
              IF /\ q.id \in DOMAIN rows
                 /\ rows[q.id].username = q.username
              THEN [q EXCEPT !.pc = "update",
                             !.new_logged = rows[q.id].hours_logged + q.hours]
              ELSE [q EXCEPT !.pc = "done", !.status = 404]]
    /\ UNCHANGED <<assignments, today, call, result, rows>>

(* log_hours, lines 361-367: UPDATE ... SET hours_logged = new_logged,     *)
(* commit, and the answer 200                                              *)
LogHoursUpdate(r) ==
    /\ requests[r].pc = "update"
    /\ rows' = [id \in DOMAIN rows |->
                  IF id = requests[r].id /\ rows[id].username = requests[r].username
                  THEN [rows[id] EXCEPT !.hours_logged = requests[r].new_logged]
                  ELSE rows[id]]
    /\ requests' = [requests EXCEPT ![r].pc = "done", ![r].status = 200]
    /\ UNCHANGED <<assignments, today, call, result>>

(* get_dashboard, line 225: the assignments handed to the engine *)
LoadUserAssignments ==
    \E username \in Users :
        /\ assignments' = load_user_assignments(rows, username)
        /\ call' = [op |-> "_load_user_assignments", i |-> 0, arg |-> username]
        /\ UNCHANGED <<today, result, rows, requests>>

----------------------------------------------------------------------------
(* THE CALLER'S LIST.  Every engine function reads `assignments` (a for    *)
(* loop or a comprehension) and reads the fields of its elements; the      *)
(* lists it appends to and sorts (scored, results, high_risk, projection,  *)
(* breakdown, impacts, headlines, top) are lists it made itself.           *)

(* a call that sorts the caller's list itself: assignments.sort(...) by    *)
(* danger_score in the two ranking functions                               *)
assignments_sorted_in_place(op, as, day) ==
    IF op \in {"rank_assignments_by_danger", "rank_assignments"}
    THEN sort_reverse(as, [i \in 1..Len(as) |-> danger_score(as[i], day)])
    ELSE as

(* the caller's list after the call op *)
assignments_after_call(op, as, day) == as

(* a call of an engine function, with what it leaves of its inputs *)
EngineCall(op, i, arg, value) ==
    /\ call' = [op |-> op, i |-> i, arg |-> arg]
    /\ result' = value
    /\ assignments' = assignments_after_call(op, assignments, today)
    /\ today' = today
    /\ UNCHANGED <<rows, requests>>

FrameRankByDanger ==
    EngineCall("rank_assignments_by_danger", 0, 0,
               rank_assignments_by_danger(assignments, today))

FrameRankAssignments ==
    EngineCall("rank_assignments", 0, 0, rank_assignments(assignments, today))

FrameGpaImpactEstimates ==
    \E current_grade \in {8500, 8550} :
        EngineCall("gpa_impact_estimates", 0, current_grade,
                   gpa_impact_estimates(assignments, current_grade))

FrameWorkloadProjection ==
    \E days \in 0..MaxDays :
        EngineCall("workload_projection", 0, days,
                   workload_projection(assignments, today, days))

FrameStressForecast ==
    \E window_days \in WindowDays :
        EngineCall("stress_forecast", 0, window_days,
                   stress_forecast(assignments, today, window_days))

FrameStartByDate ==
    \E i \in 1..Len(assignments), crunch_threshold \in CrunchThresholds :
        EngineCall("start_by_date", i, crunch_threshold,
                   start_by_date(assignments[i], today, crunch_threshold))

FrameDashboardSummary ==
    EngineCall("dashboard_summary", 0, 0, dashboard_summary(assignments, today))

----------------------------------------------------------------------------
(* Spec: the aggregate functions on assignment lists of up to MaxLen       *)
(* assignments of a pool: one overdue, the others due within and beyond    *)
(* the forecast window, risk labels High and Medium, two of them ("lab",   *)
(* "report") scoring the same.                                             *)

Pool ==
    { Assignment("essay",   400,  Today0 - 1, 1, 500),
      Assignment("quiz",    300,  Today0 + 1, 2, 301),
      Assignment("lab",     100,  Today0 + 3, 4, 600),
      Assignment("report",  100,  Today0 + 3, 4, 600),
      Assignment("project", 1000, Today0 + 7, 1, 3000) }

Lists == UNION { [1..n -> Pool] : n \in 0..MaxLen }

Init ==
    /\ assignments \in Lists
    /\ today = Today0
    /\ call = NoCall
    /\ result = 0
    /\ rows = AssignmentsTable
    /\ requests = NoRequests

Next ==
    \/ CallRankByDanger
    \/ CallStressForecast
    \/ CallWorkloadProjection
    \/ CallGpaImpactEstimates
    \/ CallDashboardSummary

Spec == Init /\ [][Next]_vars

----------------------------------------------------------------------------
(* SpecRisk: calc_risk on one assignment, the weight in steps of 0.1 %     *)

InitRisk ==
    /\ \E w \in 0..1000, d \in -2..(MaxDue + 4), c \in 1..5 :
          assignments = <<Assignment("a", w, Today0 + d, c, 500)>>
    /\ today = Today0
    /\ call = NoCall
    /\ result = 0
    /\ rows = AssignmentsTable
    /\ requests = NoRequests

NextRisk == CallCalcRisk

SpecRisk == InitRisk /\ [][NextRisk]_vars

----------------------------------------------------------------------------
(* SpecUrgency: calc_urgency and start_by_date on one assignment, the      *)
(* hours in quarters of an hour and 3.01, 7.51 and 12.01 hours             *)

HoursSet == {25 * k : k \in 0..MaxQuarterHours} \cup {301, 751, 1201}

InitUrgency ==
    /\ \E h \in HoursSet, d \in -2..MaxDue :
          assignments = <<Assignment("a", 200, Today0 + d, 3, h)>>
    /\ today = Today0
    /\ call = NoCall
    /\ result = 0
    /\ rows = AssignmentsTable
    /\ requests = NoRequests

NextUrgency ==
    \/ CallCalcUrgency
    \/ CallStartByDate

SpecUrgency == InitUrgency /\ [][NextUrgency]_vars

----------------------------------------------------------------------------
(* SpecDanger: the danger score of two assignments side by side *)

DangerItems ==
    { Assignment("a", w, Today0 + d, c, h) :
        w \in {0, 624, 1000}, d \in {-1, 0, 2, 9},
        c \in {1, 5}, h \in {0, 150, 301, 3000} }

InitDanger ==
    /\ assignments \in [1..2 -> DangerItems]
    /\ today = Today0
    /\ call = NoCall
    /\ result = 0
    /\ rows = AssignmentsTable
    /\ requests = NoRequests

NextDanger ==
    \/ CallRankByDanger
    \/ CallDangerScore

SpecDanger == InitDanger /\ [][NextDanger]_vars

----------------------------------------------------------------------------
(* SpecGpa: gpa_impact_estimate on one assignment, weights in steps of     *)
(* 2.5 % from -5 % to 110 %, confidences 0..6                              *)

InitGpa ==
    /\ \E k \in -2..44, c \in 0..6 :
          assignments = <<Assignment("a", 25 * k, Today0 + 5, c, 500)>>
    /\ today = Today0
    /\ call = NoCall
    /\ result = 0
    /\ rows = AssignmentsTable
    /\ requests = NoRequests

NextGpa == CallGpaImpactEstimate

SpecGpa == InitGpa /\ [][NextGpa]_vars

----------------------------------------------------------------------------
(* SpecFrame: any sequence of calls of the seven functions on one list *)

InitFrame ==
    /\ assignments \in UNION { [1..n -> Pool] : n \in 0..MaxFrameLen }
    /\ today = Today0
    /\ call = NoCall
    /\ result = 0
    /\ rows = AssignmentsTable
    /\ requests = NoRequests

NextFrame ==
    \/ FrameRankByDanger
    \/ FrameRankAssignments
    \/ FrameGpaImpactEstimates
    \/ FrameWorkloadProjection
    \/ FrameStressForecast
    \/ FrameStartByDate
    \/ FrameDashboardSummary

SpecFrame == InitFrame /\ [][NextFrame]_vars

----------------------------------------------------------------------------
(* SpecDashboard: dashboard_summary on lists in which names repeat *)

DashboardPool ==
    { Assignment("quiz",  300,  Today0 + 1, 2, 301),
      Assignment("quiz",  1000, Today0 + 7, 1, 3000),
      Assignment("lab",   100,  Today0 + 3, 4, 600),
      Assignment("lab",   400,  Today0 - 1, 1, 500),
      Assignment("essay", 500,  Today0 + 9, 3, 2000) }

InitDashboard ==
    /\ assignments \in UNION { [1..n -> DashboardPool] : n \in 0..MaxDashLen }
    /\ today = Today0
    /\ call = NoCall
    /\ result = 0
    /\ rows = AssignmentsTable
    /\ requests = NoRequests

NextDashboard == CallDashboardSummary

SpecDashboard == InitDashboard /\ [][NextDashboard]_vars

----------------------------------------------------------------------------
(* SpecApp: log-hours requests handled concurrently, and the dashboard's   *)
(* load of the assignments                                                 *)

InitApp ==
    /\ assignments = <<>>
    /\ today = Today0
    /\ call = NoCall
    /\ result = 0
    /\ rows = AssignmentsTable
    /\ requests = NoRequests

NextApp ==
    \/ \E r \in 1..MaxRequests : LogHoursReceive(r)
    \/ \E r \in 1..MaxRequests : LogHoursSelect(r)
    \/ \E r \in 1..MaxRequests : LogHoursUpdate(r)
    \/ LoadUserAssignments

SpecApp == InitApp /\ [][NextApp]_vars

----------------------------------------------------------------------------
(* THE CLAIMS *)

(* the one assignment of the single-assignment specifications *)
TheItem == assignments[1]

TheDaysLeft == TheItem.due_date - today

(* pace(k) > T, where pace(k) = estimated_hours / max(1, D - k) *)
PaceExceeds(k, T) == TheItem.estimated_hours > T * Max(1, TheDaysLeft - k)

(* start_by_date was called on an assignment due D >= 1 days ahead with a  *)
(* threshold that some delay in 0..D exceeds                               *)
C1_Case ==
    /\ call.op = "start_by_date"
    /\ TheDaysLeft >= 1
    /\ \E k \in 0..TheDaysLeft : PaceExceeds(k, call.arg)

(* C1 as stated: start_by_days s has s < D, pace(s) <= T and pace(s+1) > T *)
C1_Original ==
    C1_Case =>
        /\ result.start_by_days < TheDaysLeft
        /\ ~PaceExceeds(result.start_by_days, call.arg)
        /\ PaceExceeds(result.start_by_days + 1, call.arg)

(* C1 amended: start_by_days s has s < D and pace(s+1) > T; when the pace  *)
(* of starting today is within the threshold, pace(s) <= T as well, so s   *)
(* is the latest start within the threshold; when starting today is over   *)
(* the threshold already, s = 0.                                           *)
C1_StartByBoundary ==
    C1_Case =>
        /\ result.start_by_days < TheDaysLeft
        /\ PaceExceeds(result.start_by_days + 1, call.arg)
        /\ ~PaceExceeds(0, call.arg) => ~PaceExceeds(result.start_by_days, call.arg)
        /\ PaceExceeds(0, call.arg) => result.start_by_days = 0

(* 20 hours due in 10 days at 2.5 hours a day: start in 2 days *)
C1_Witness ==
    /\ C1_Case
    /\ TheItem.estimated_hours = 2000
    /\ TheDaysLeft = 10
    /\ call.arg = 250
    /\ result.start_by_days = 2

(* C2: calc_risk returns risk_score in 0..10, and risk_label is "Low" iff  *)
(* the returned risk_score < 3.5, "Medium" iff 3.5 <= risk_score < 5.5,    *)
(* "High" iff risk_score >= 5.5.                                           *)
C2_LabelAgreesWithScore ==
    call.op = "calc_risk" =>
        /\ 0 <= result.risk_score /\ result.risk_score <= 1000
        /\ result.risk_label = "Low" <=> result.risk_score < 350
        /\ result.risk_label = "Medium" <=>
              (350 <= result.risk_score /\ result.risk_score < 550)
        /\ result.risk_label = "High" <=> result.risk_score >= 550

(* the bucket of a returned hours_per_day, in hundredths *)
ZoneOfReturned(hours_per_day) ==
    IF hours_per_day <= 100 THEN "Safe"
    ELSE IF hours_per_day <= 250 THEN "Steady"
    ELSE IF hours_per_day <= 400 THEN "Crunch Zone"
    ELSE "Panic Zone"

(* C4: calc_urgency returns hours_per_day = None and zone "Overdue"        *)
(* exactly when days_left - start_delay_days < 0; otherwise hours_per_day  *)
(* is estimated_hours / max(1, days_left - start_delay_days), compared at  *)
(* the two decimals it is returned with, and zone is the bucket of the     *)
(* returned hours_per_day.                                                 *)
C4_ZoneOfReturnedHours ==
    call.op = "calc_urgency" =>
        LET left == TheDaysLeft - call.arg
            effective == Max(1, left)
        IN  /\ result.hours_per_day = None <=> left < 0
            /\ result.zone = "Overdue" <=> left < 0
            /\ left >= 0 =>
                  /\ 2 * Abs(result.hours_per_day * effective
                               - TheItem.estimated_hours) <= effective
                  /\ result.zone = ZoneOfReturned(result.hours_per_day)

(* urgency_scaled as C5 states it *)
C5_UrgencyScaled(hours_per_day) ==
    IF hours_per_day = None THEN 1000
    ELSE IF hours_per_day >= 500 THEN 1000 ELSE 2 * hours_per_day

(* C5: of two ranked assignments, equal urgency_scaled and risk_score not  *)
(* greater gives danger_score not greater; equal risk_score and            *)
(* urgency_scaled not greater gives danger_score not greater; an overdue   *)
(* assignment does not score below another of equal risk_score.            *)
C5_DangerMonotone ==
    call.op = "rank_assignments_by_danger" =>
        \A i, j \in 1..Len(result) :
            LET ui == C5_UrgencyScaled(result[i].hours_per_day)
                uj == C5_UrgencyScaled(result[j].hours_per_day)
            IN  /\ (ui = uj /\ result[i].risk_score <= result[j].risk_score)
                      => result[i].danger_score <= result[j].danger_score
                /\ (result[i].risk_score = result[j].risk_score /\ ui <= uj)
                      => result[i].danger_score <= result[j].danger_score
                /\ (result[i].risk_score = result[j].risk_score
                        /\ result[i].hours_per_day = None)
                      => result[i].danger_score >= result[j].danger_score

(* an overdue assignment ranked above one of equal risk_score due today *)
C5_Witness ==
    /\ call.op = "rank_assignments_by_danger"
    /\ Len(result) = 2
    /\ result[1].hours_per_day = None
    /\ result[2].hours_per_day # None
    /\ result[1].risk_score = result[2].risk_score
    /\ result[1].danger_score > result[2].danger_score

(* the entries of the assignments in input order, before the sort *)
C3_Entries == [i \in 1..Len(assignments) |-> danger_entry(assignments[i], today)]

(* the entries of s whose danger_score is d, in their order in s *)
C3_Scoring(s, d) == SelectSeq(s, LAMBDA e : e.danger_score = d)

(* C3: rank_assignments_by_danger returns one entry per assignment, by     *)
(* descending danger_score, and the entries of each danger_score are those *)
(* of the input with that score, in input order.                           *)
C3_RankSortedStable ==
    call.op = "rank_assignments_by_danger" =>
        /\ Len(result) = Len(assignments)
        /\ \A p \in 1..(Len(result) - 1) :
              result[p].danger_score >= result[p + 1].danger_score
        /\ \A i \in 1..Len(assignments) :
              C3_Scoring(result, C3_Entries[i].danger_score)
                 = C3_Scoring(C3_Entries, C3_Entries[i].danger_score)
        /\ \A p \in 1..Len(result) :
              \E i \in 1..Len(assignments) :
                 C3_Entries[i].danger_score = result[p].danger_score

(* "report" before "lab" in the input, of equal danger_score: ranked below *)
(* a higher score in that order                                            *)
C3_Witness ==
    /\ call.op = "rank_assignments_by_danger"
    /\ Len(result) = 3
    /\ assignments[1].name = "report"
    /\ assignments[2].name = "lab"
    /\ result[1].danger_score > result[2].danger_score
    /\ result[2].name = "report"
    /\ result[3].name = "lab"
    /\ result[2].danger_score = result[3].danger_score

(* the assignments not past due on a day *)
C6_Pending(day) ==
    {k \in 1..Len(assignments) : assignments[k].due_date >= day}

(* the sum over the assignments S of estimated_hours / max(1, due - day),  *)
(* as the fraction num / den                                               *)
RECURSIVE C6_Sum(_, _)
C6_Sum(S, day) ==
    IF S = {} THEN [num |-> 0, den |-> 1]
    ELSE LET k == CHOOSE x \in S : TRUE
             rest == C6_Sum(S \ {k}, day)
             span == Max(1, assignments[k].due_date - day)
         IN  [num |-> rest.num * span + assignments[k].estimated_hours * rest.den,
              den |-> rest.den * span]

(* C6 as stated: `days` entries for today..today+days-1 in order, each     *)
(* total_hours equal to the sum over the assignments not past due that day *)
C6_Original ==
    call.op = "workload_projection" =>
        /\ Len(result) = call.arg
        /\ \A i \in 1..Len(result) :
              LET sum == C6_Sum(C6_Pending(today + i - 1), today + i - 1)
              IN  /\ result[i].date = today + i - 1
                  /\ result[i].total_hours * sum.den = sum.num

(* C6 amended: total_hours is that sum rounded to two decimals *)
C6_WorkloadRounded ==
    call.op = "workload_projection" =>
        /\ Len(result) = call.arg
        /\ \A i \in 1..Len(result) :
              LET sum == C6_Sum(C6_Pending(today + i - 1), today + i - 1)
              IN  /\ result[i].date = today + i - 1
                  /\ 2 * Abs(result[i].total_hours * sum.den - sum.num) <= sum.den

(* two days of an overdue essay, a quiz due tomorrow and a project due in  *)
(* 7 days: 3.01 + 30/7 and 3.01 + 30/6 hours                               *)
C6_Witness ==
    /\ call.op = "workload_projection"
    /\ call.arg = 2
    /\ Len(assignments) = 3
    /\ assignments[1].name = "essay"
    /\ assignments[2].name = "quiz"
    /\ assignments[3].name = "project"
    /\ result[1].total_hours = 730
    /\ result[2].total_hours = 801

(* the confidence lookup of C7 *)
C7_Predicted(confidence) ==
    IF confidence = 1 THEN 6500
    ELSE IF confidence = 2 THEN 7500
    ELSE IF confidence = 4 THEN 9000
    ELSE IF confidence = 5 THEN 9600
    ELSE 8300

(* 1000 * (cg * (1 - w) + ps * w) *)
C7_Projected ==
    LET w  == Max(0, Min(1000, TheItem.weight_percent))
        cg == Max(0, Min(10000, call.arg))
        ps == Max(0, Min(10000, C7_Predicted(TheItem.confidence)))
    IN  cg * (1000 - w) + ps * w

(* what C7 says of delta_points, severity and drop_risk *)
C7_Rest ==
    /\ result.delta_points = result.projected_grade - call.arg
    /\ result.severity =
          IF Abs(result.delta_points) < 50 THEN "Tiny"
          ELSE IF Abs(result.delta_points) < 150 THEN "Noticeable"
          ELSE "Big"
    /\ result.drop_risk <=>
          (TheItem.weight_percent >= 200 /\ TheItem.confidence <= 2)

(* C7 as stated: projected_grade = cg * (1 - w) + ps * w *)
C7_Original ==
    call.op = "gpa_impact_estimate" =>
        /\ result.projected_grade * 1000 = C7_Projected
        /\ C7_Rest

(* C7 amended: projected_grade is cg * (1 - w) + ps * w rounded to two     *)
(* decimals; delta_points, severity and drop_risk as stated                *)
C7_GpaImpactRounded ==
    call.op = "gpa_impact_estimate" =>
        /\ 2 * Abs(result.projected_grade * 1000 - C7_Projected) <= 1000
        /\ C7_Rest

(* current 85, weight 20, confidence 1: 81.0, -4.0, Big, drop risk *)
C7_Witness ==
    /\ call.op = "gpa_impact_estimate"
    /\ call.arg = 8500
    /\ TheItem.weight_percent = 200
    /\ TheItem.confidence = 1
    /\ result.projected_grade = 8100
    /\ result.delta_points = -400
    /\ result.severity = "Big"
    /\ result.drop_risk

(* C8: top is the first min(3, n) entries of rank_assignments_by_danger,   *)
(* each with its start_by attached, headlines has one line per top entry   *)
(* in that order, and the stress forecast is that of a 5-day window.       *)
C8_DashboardTopThree ==
    call.op = "dashboard_summary" =>
        LET k == IF Len(assignments) < 3 THEN Len(assignments) ELSE 3
            ranked_fields == {"name", "risk_score", "risk_label", "hours_per_day",
                              "zone", "danger_score"}
        IN  /\ Len(result.top) = k
            /\ Len(result.headlines) = k
            /\ [i \in 1..k |-> [f \in ranked_fields |-> result.top[i][f]]]
                  = SubSeq(rank_assignments_by_danger(assignments, today), 1, k)
            /\ \A i \in 1..k :
                  /\ DOMAIN result.top[i] = ranked_fields \cup {"start_by"}
                  /\ result.headlines[i].name = result.top[i].name
                  /\ result.headlines[i].danger_score = result.top[i].danger_score
                  /\ result.headlines[i].risk_label = result.top[i].risk_label
                  /\ result.headlines[i].risk_score = result.top[i].risk_score
                  /\ result.headlines[i].zone = result.top[i].zone
                  /\ result.headlines[i].hours_per_day = result.top[i].hours_per_day
                  /\ result.headlines[i].start_by_date
                        = result.top[i].start_by.start_by_date
            /\ result.stress_forecast.window_days = 5
            /\ result.stress_forecast = stress_forecast(assignments, today, 5)

(* four assignments, the least dangerous of them cut from top *)
C8_Witness ==
    /\ call.op = "dashboard_summary"
    /\ Len(assignments) = 4
    /\ assignments[1].name = "lab"
    /\ Len(result.top) = 3
    /\ \A i \in 1..3 : result.top[i].name # "lab"

(* an assignment stress_forecast is to count *)
C9_Counted(a, window_days) ==
    /\ 0 <= a.due_date - today
    /\ a.due_date - today <= window_days
    /\ calc_risk(a, today).risk_label = "High"

C10_EmptyList ==
    assignments = <<>> =>
        /\ call.op = "rank_assignments_by_danger" => result = <<>>
        /\ call.op = "gpa_impact_estimates" => result = <<>>
        /\ call.op = "stress_forecast" =>
              /\ result.high_risk_count = 0
              /\ result.high_risk_names = <<>>
        /\ call.op = "dashboard_summary" =>
              /\ result.top = <<>>
              /\ result.headlines = <<>>
              /\ result.stress_forecast.high_risk_count = 0
        /\ call.op = "workload_projection" =>
              /\ Len(result) = call.arg
              /\ \A i \in 1..Len(result) :
                    /\ result[i].total_hours = 0
                    /\ result[i].breakdown = <<>>

(* two days projected for no assignments *)
C10_Witness ==
    /\ assignments = <<>>
    /\ call.op = "workload_projection"
    /\ call.arg = 2
    /\ Len(result) = 2

(* what the call c returns on the list as and the date day *)
C11_Value(c, as, day) ==
    CASE c.op = "rank_assignments_by_danger" -> rank_assignments_by_danger(as, day)
      [] c.op = "rank_assignments" -> rank_assignments(as, day)
      [] c.op = "gpa_impact_estimates" -> gpa_impact_estimates(as, c.arg)
      [] c.op = "workload_projection" -> workload_projection(as, day, c.arg)
      [] c.op = "stress_forecast" -> stress_forecast(as, day, c.arg)
      [] c.op = "start_by_date" -> start_by_date(as[c.i], day, c.arg)
      [] c.op = "dashboard_summary" -> dashboard_summary(as, day)

C14_Ranked ==
    sort_reverse(assignments,
                 [i \in 1..Len(assignments) |-> danger_score(assignments[i], today)])

(* C14: the start_by of every entry of top, and the start-by date of its   *)
(* headline, are start_by_date of the assignment the entry was computed    *)
(* from.                                                                   *)
C14_StartByOfSameAssignment ==
    call.op = "dashboard_summary" =>
        \A p \in 1..Len(result.top) :
            LET own == start_by_date(C14_Ranked[p], today, 250)
            IN  /\ result.top[p].name = C14_Ranked[p].name
                /\ result.top[p].danger_score = danger_score(C14_Ranked[p], today)
                /\ result.top[p].start_by = own
                /\ result.headlines[p].start_by_date = own.start_by_date

(* the sum of the hours of the requests in rs *)
RECURSIVE SumHours(_)
SumHours(rs) ==
    IF rs = {} THEN 0
    ELSE LET r == CHOOSE x \in rs : TRUE
         IN  requests[r].hours + SumHours(rs \ {r})

(* the requests on the row id that were answered 200 *)
Successful(id) ==
    {r \in 1..MaxRequests : requests[r].status = 200 /\ requests[r].id = id}

(* C13: when the log-hours requests have all completed, every row's        *)
(* hours_logged is its initial value plus the hours of every request on it *)
(* that was answered 200; no interleaving loses an update.                 *)
C13_NoLostUpdate ==
    (\A r \in 1..MaxRequests : requests[r].pc = "done") =>
        \A id \in DOMAIN rows :
            rows[id].hours_logged =
                AssignmentsTable[id].hours_logged + SumHours(Successful(id))

(* the request r is answered 400 or 404 in this step *)
C12_Rejected(r) ==
    /\ requests[r].pc # "done"
    /\ requests'[r].pc = "done"
    /\ requests'[r].status \in {400, 404}

(* C12: in every step, hours_logged of every row is afterwards the initial *)
(* value plus the hours of the requests on it answered 200 (each > 0) and  *)
(* is not less than before; the estimated_hours loaded for the engine is   *)
(* max(0, est_hours - hours_logged) and so not negative; a request with    *)
(* hours <= 0 or naming a row that is not the user's is answered 400 or    *)
(* 404 and leaves the table as it was.                                     *)
C12_HoursLogged ==
    [][ /\ \A id \in DOMAIN rows :
              /\ rows'[id].hours_logged >= rows[id].hours_logged
              /\ rows'[id].hours_logged =
                    AssignmentsTable[id].hours_logged
                      + SumHours(Successful(id))'
              /\ \A r \in Successful(id)' : requests'[r].hours > 0
        /\ \A r \in 1..MaxRequests :
              /\ C12_Rejected(r) => rows' = rows
              /\ (requests'[r].pc = "done"
                  /\ (requests'[r].hours <= 0
                      \/ requests'[r].id \notin DOMAIN rows
                      \/ rows[requests'[r].id].username # requests'[r].username))
                 => requests'[r].status \in {400, 404}
        /\ call'.op = "_load_user_assignments" =>
              \A p \in 1..Len(assignments') : assignments'[p].estimated_hours >= 0
      ]_vars

====
